---- MODULE Spec2Model ----
(***************************************************************************)
(* Model of the colour-scheme preference hook, src/hooks/useColorScheme.ts *)
(* Each live instance of useColorScheme runs in its own browsing context   *)
(* (tab) of one origin: the contexts share window.localStorage and the     *)
(* platform's prefers-color-scheme signal, and each has its own document.  *)
(* One action is one event handled by one context, with the render and the *)
(* effects React runs for it.                                              *)
(* The second part models src/lib/supabaseClient.ts and the slot selection *)
(* and autosave of src/app/App.tsx: one App, the requests it has in flight *)
(* and the rows of rpg_saves.                                              *)
(***************************************************************************)
EXTENDS Naturals, Sequences, FiniteSets, TLC

VARIABLES
    storageOK,     \* window.localStorage can be read and written (no throw)
    mediaOK,       \* window.matchMedia exists and does not throw
    mediaApi,      \* the subscription methods the MediaQueryList has
    store,         \* localStorage[STORAGE_KEY]: a raw string, or Null
    mediaMatches,  \* the platform's (prefers-color-scheme: dark) state
    alive,         \* alive[i]: instance i is mounted
    preference,    \* preference[i]: the useState value
    systemScheme,  \* systemScheme[i]: the snapshot useSyncExternalStore rendered
    scheme,        \* scheme[i]: the useMemo value
    doc,           \* doc[i]: document.documentElement of i's context
    events,        \* events[i]: "storage" events queued for i's listener
    sysPending,    \* sysPending[i]: a media "change" event is queued for i
    listeners,     \* listeners[i]: the listeners instance i has registered
    last,          \* the event handled last (history)
    origin,        \* who changed the key last, and by which operation (history)
    supabaseUrl,     \* process.env.NEXT_PUBLIC_SUPABASE_URL
    supabaseAnonKey, \* process.env.NEXT_PUBLIC_SUPABASE_ANON_KEY
    cachedClient,    \* the module variable of supabaseClient.ts
    createCalls,     \* how often createClient has been invoked (history)
    firstResult,     \* what the first call of getSupabaseClient returned (history)
    returned,        \* what the last call of getSupabaseClient returned
    appState,        \* "initial", "mounted" or "unmounted"
    supabase,        \* App's useMemo of getSupabaseClient()
    selectedSlot,    \* App's useState
    characterName,   \* App's useState
    showNameInput,   \* App's useState
    lookups,         \* the selects of handleSelectSlot in flight
    updates,         \* the updates of handleStartNewGame in flight
    db,              \* db[s]: the row of rpg_saves with save_slot s
    intervals,       \* the setInterval timers not cleared
    started,         \* the slot of the autosave write the last step started (history)
    selectedLookup,  \* the character_name the lookup of the selected slot returned (history)
    selectedHad      \* the selected slot had a character when it was selected (history)

hookVars == <<storageOK, mediaOK, mediaApi, store, mediaMatches, alive, preference,
              systemScheme, scheme, doc, events, sysPending, listeners, origin>>

clientVars == <<supabaseUrl, supabaseAnonKey, cachedClient, createCalls,
                firstResult, returned>>

appVars == <<clientVars, appState, supabase, selectedSlot, characterName,
             showNameInput, lookups, updates, db, intervals, started,
             selectedLookup, selectedHad>>

vars == <<hookVars, last, appVars>>

\* The browsing contexts of the model.
Instances == {"A", "B"}
\* Storage events queued for one listener at most.
MaxPending == 1

STORAGE_KEY == "chatkit-color-scheme"
\* Any other localStorage key of the origin.
OTHER_KEY == "other-key"
\* JavaScript's null: getItem of a missing key, readStoredPreference's "nothing".
Null == "<null>"
\* The fields of an unmounted instance.
Unmounted == "<unmounted>"

ColorScheme == {"light", "dark"}
ColorSchemePreference == ColorScheme \cup {"system"}
\* What the key can hold: missing, the three literals, a malformed and an empty string.
RawValues == {Null, "light", "dark", "system", "blue", ""}
\* The store of a system whose only writers are instances of the hook.
OwnValues == {Null, "light", "dark"}

\* The ways of listening to a media query's "change".
MediaListeners == {"addEventListener", "addListener"}

\* The contexts with a "storage" listener, the one of i apart.
Others(i) == {j \in Instances : j # i /\ "storage" \in listeners[j]}

\* subscribeSystem: what it registers on the media query, the modern way when
\* the query has it, the legacy way otherwise, nothing without either.
subscribeSystem ==
    IF ~mediaOK THEN {}
    ELSE IF "addEventListener" \in mediaApi THEN {"addEventListener"}
    ELSE IF "addListener" \in mediaApi THEN {"addListener"}
    ELSE {}

\* An unsubscribe that always calls removeEventListener.
unsubscribeSystem_modern ==
    IF ~mediaOK THEN {} ELSE {"addEventListener"}

\* The unsubscribe subscribeSystem returns: what it removes.
unsubscribeSystem ==
    IF ~mediaOK THEN {}
    ELSE IF "addEventListener" \in mediaApi THEN {"addEventListener"}
    ELSE IF "addListener" \in mediaApi THEN {"addListener"}
    ELSE {}

\* getSystemSnapshot reading the platform's state without a media query.
getSystemSnapshot_platform == IF mediaMatches THEN "dark" ELSE "light"

\* getSystemSnapshot: media?.matches ? "dark" : "light", media null when unavailable.
getSystemSnapshot == IF mediaOK /\ mediaMatches THEN "dark" ELSE "light"

\* readStoredPreference taking whatever is not "light" or "dark" for "system".
readStoredPreference_lenient ==
    IF ~storageOK THEN Null
    ELSE IF store = "light" \/ store = "dark" THEN store ELSE "system"

\* readStoredPreference returning the raw string unvalidated.
readStoredPreference_raw ==
    IF ~storageOK THEN Null ELSE store

\* readStoredPreference: the stored literal, or Null (missing, malformed, throw).
readStoredPreference ==
    IF ~storageOK THEN Null
    ELSE IF store = "light" \/ store = "dark" THEN store
    ELSE IF store = "system" THEN "system" ELSE Null

\* persistPreference storing "system" like the other two literals.
persistPreference_literal(p) ==
    IF ~storageOK THEN store ELSE p

\* persistPreference leaving the key in place for "system".
persistPreference_keep(p) ==
    IF ~storageOK THEN store
    ELSE IF p = "system" THEN store ELSE p

\* persistPreference: what the key holds after the call.
persistPreference(p) ==
    IF ~storageOK THEN store
    ELSE IF p = "system" THEN Null ELSE p

\* The useMemo following the system whatever the preference.
useMemoScheme_system(p, sys) == sys

\* The useMemo of the hook.
useMemoScheme(p, sys) == IF p = "system" THEN sys ELSE p

\* applyDocumentScheme adding the "dark" class and never removing it.
applyDocumentScheme_add(s) ==
    [colorScheme |-> s, dark |-> TRUE, styleColorScheme |-> s]

\* applyDocumentScheme: dataset.colorScheme, classList "dark", style.colorScheme.
applyDocumentScheme(s) ==
    [colorScheme |-> s, dark |-> (s = "dark"), styleColorScheme |-> s]

NoDocument == [colorScheme |-> Null, dark |-> FALSE, styleColorScheme |-> Null]

\* A write of the key by context w: the browser queues a "storage" event for
\* every other context when the value changed, and none for the writer.
CanWrite(w, v) ==
    v # store => \A j \in Others(w) : Len(events[j]) < MaxPending

WriteStore(w, v, queued) ==
    /\ store' = v
    /\ events' = [j \in Instances |->
                    IF j \in Others(w) /\ v # store
                    THEN Append(queued[j], STORAGE_KEY)
                    ELSE queued[j]]

\* A render of instance i with preference p, and the effects of its commit:
\* persistPreference when the preference changed, applyDocumentScheme when the
\* scheme changed. queued: the storage events waiting once the handler has run.
Commit(i, p, queued) ==
    LET sys == getSystemSnapshot
        sch == useMemoScheme(p, sys)
    IN  /\ preference' = [preference EXCEPT ![i] = p]
        /\ systemScheme' = [systemScheme EXCEPT ![i] = sys]
        /\ scheme' = [scheme EXCEPT ![i] = sch]
        /\ doc' = [doc EXCEPT ![i] =
                     IF sch # scheme[i] THEN applyDocumentScheme(sch) ELSE @]
        /\ IF p # preference[i]
           THEN /\ CanWrite(i, persistPreference(p))
                /\ WriteStore(i, persistPreference(p), queued)
           ELSE /\ store' = store
                /\ events' = queued

\* setPreferenceState(next): React bails out when the state is unchanged.
setPreferenceState(i, next) ==
    IF next = preference[i]
    THEN UNCHANGED <<store, preference, systemScheme, scheme, doc, events>>
    ELSE Commit(i, next, events)

setPreference(i, next) == setPreferenceState(i, next)

\* setScheme changing what is shown and not the preference.
setScheme_presentation(i, next) ==
    /\ scheme' = [scheme EXCEPT ![i] = next]
    /\ doc' = [doc EXCEPT ![i] = applyDocumentScheme(next)]
    /\ UNCHANGED <<store, preference, systemScheme, events>>

setScheme(i, next) == setPreferenceState(i, next)

resetPreference(i) == setPreferenceState(i, "system")

Env == <<storageOK, mediaOK, mediaApi>>

\* The history of the key: the handler of instance i that changed its value.
Origin(i, op) == IF store' # store THEN [inst |-> i, op |-> op] ELSE origin

\* The hook is called for the first time in context i: useState's initializer,
\* the first render, and the three effects.
Mount(i, initialPreference) ==
    /\ ~alive[i]
    /\ alive' = [alive EXCEPT ![i] = TRUE]
    /\ LET stored == readStoredPreference
           p == IF stored # Null THEN stored ELSE initialPreference
       IN Commit(i, p, events)
    /\ last' = [op |-> "mount", inst |-> i, arg |-> initialPreference,
                raw |-> store]
    /\ origin' = Origin(i, "mount")
    /\ listeners' = [listeners EXCEPT ![i] = @ \cup {"storage"} \cup subscribeSystem]
    /\ UNCHANGED <<Env, mediaMatches, sysPending>>
    /\ UNCHANGED appVars

\* The owning component unmounts: the effects' cleanups remove the listeners.
Unmount(i) ==
    /\ alive[i]
    /\ alive' = [alive EXCEPT ![i] = FALSE]
    /\ preference' = [preference EXCEPT ![i] = Unmounted]
    /\ systemScheme' = [systemScheme EXCEPT ![i] = Unmounted]
    /\ scheme' = [scheme EXCEPT ![i] = Unmounted]
    /\ listeners' = [listeners EXCEPT ![i] = (@ \ {"storage"}) \ unsubscribeSystem]
    /\ events' = [events EXCEPT ![i] =
                    IF "storage" \in listeners'[i] THEN @ ELSE <<>>]
    /\ sysPending' = [sysPending EXCEPT ![i] =
                        @ /\ listeners'[i] \cap MediaListeners # {}]
    /\ last' = [op |-> "unmount", inst |-> i, arg |-> preference[i]]
    /\ origin' = origin
    /\ UNCHANGED <<Env, store, mediaMatches, doc>>
    /\ UNCHANGED appVars

SetPreference(i, next) ==
    /\ alive[i]
    /\ setPreference(i, next)
    /\ last' = [op |-> "setPreference", inst |-> i, arg |-> next]
    /\ origin' = Origin(i, "setPreference")
    /\ UNCHANGED <<Env, mediaMatches, alive, sysPending, listeners>>
    /\ UNCHANGED appVars

SetScheme(i, next) ==
    /\ alive[i]
    /\ setScheme(i, next)
    /\ last' = [op |-> "setScheme", inst |-> i, arg |-> next]
    /\ origin' = Origin(i, "setScheme")
    /\ UNCHANGED <<Env, mediaMatches, alive, sysPending, listeners>>
    /\ UNCHANGED appVars

ResetPreference(i) ==
    /\ alive[i]
    /\ resetPreference(i)
    /\ last' = [op |-> "resetPreference", inst |-> i, arg |-> "system"]
    /\ origin' = Origin(i, "resetPreference")
    /\ UNCHANGED <<Env, mediaMatches, alive, sysPending, listeners>>
    /\ UNCHANGED appVars

\* handleStorage dropping the event without reading the key.
handleStorage_deaf(i, key) ==
    /\ events' = [events EXCEPT ![i] = Tail(@)]
    /\ UNCHANGED <<store, preference, systemScheme, scheme, doc>>

\* handleStorage: the listener of instance i takes the next "storage" event.
\* The updater keeps the current preference when nothing valid is stored, and
\* React renders only when the state changed.
handleStorage(i, key) ==
    LET queued == [events EXCEPT ![i] = Tail(@)]
        stored == readStoredPreference
        p == IF stored # Null THEN stored ELSE preference[i]
    IN IF key # STORAGE_KEY \/ p = preference[i]
       THEN /\ events' = queued
            /\ UNCHANGED <<store, preference, systemScheme, scheme, doc>>
       ELSE Commit(i, p, queued)

HandleStorage(i) ==
    /\ alive[i]
    /\ events[i] # <<>>
    /\ handleStorage(i, Head(events[i]))
    /\ last' = [op |-> "handleStorage", inst |-> i, arg |-> Head(events[i])]
    /\ origin' = Origin(i, "handleStorage")
    /\ UNCHANGED <<Env, mediaMatches, alive, sysPending, listeners>>
    /\ UNCHANGED appVars

\* The change handler pinning the system's scheme as the preference.
HandleSystemChange_pin(i) ==
    /\ alive[i]
    /\ sysPending[i]
    /\ sysPending' = [sysPending EXCEPT ![i] = FALSE]
    /\ preference' = [preference EXCEPT ![i] = getSystemSnapshot]
    /\ systemScheme' = [systemScheme EXCEPT ![i] = getSystemSnapshot]
    /\ scheme' = [scheme EXCEPT ![i] = getSystemSnapshot]
    /\ doc' = [doc EXCEPT ![i] = applyDocumentScheme(getSystemSnapshot)]
    /\ last' = [op |-> "systemChange", inst |-> i, arg |-> getSystemSnapshot]
    /\ origin' = origin
    /\ UNCHANGED <<Env, store, mediaMatches, alive, events, listeners>>
    /\ UNCHANGED appVars

\* The media query's "change" event reaches instance i: useSyncExternalStore
\* reads the snapshot again and renders when it changed.
HandleSystemChange(i) ==
    /\ alive[i]
    /\ sysPending[i]
    /\ sysPending' = [sysPending EXCEPT ![i] = FALSE]
    /\ systemScheme' = [systemScheme EXCEPT ![i] = getSystemSnapshot]
    /\ scheme' = [scheme EXCEPT ![i] =
                    useMemoScheme(preference[i], getSystemSnapshot)]
    /\ doc' = [doc EXCEPT ![i] =
                 IF scheme'[i] # scheme[i]
                 THEN applyDocumentScheme(scheme'[i]) ELSE @]
    /\ last' = [op |-> "systemChange", inst |-> i, arg |-> getSystemSnapshot]
    /\ origin' = origin
    /\ UNCHANGED <<Env, store, mediaMatches, alive, preference, events, listeners>>
    /\ UNCHANGED appVars

\* The platform switches between light and dark: every subscribed media query
\* gets a "change" event.
MediaChange ==
    /\ mediaOK
    /\ mediaMatches' = ~mediaMatches
    /\ sysPending' = [i \in Instances |->
                        sysPending[i] \/ listeners[i] \cap MediaListeners # {}]
    /\ last' = [op |-> "mediaChange", inst |-> Null,
                arg |-> IF mediaMatches' THEN "dark" ELSE "light"]
    /\ origin' = origin
    /\ UNCHANGED <<Env, store, alive, preference, systemScheme, scheme, doc, events,
                   listeners>>
    /\ UNCHANGED appVars

\* Another script of the origin, not the hook, sets or removes the key.
ForeignWrite(raw) ==
    /\ storageOK
    /\ raw # store
    /\ \A j \in Instances : "storage" \in listeners[j] => Len(events[j]) < MaxPending
    /\ store' = raw
    /\ events' = [j \in Instances |->
                    IF "storage" \in listeners[j]
                    THEN Append(events[j], STORAGE_KEY) ELSE events[j]]
    /\ last' = [op |-> "foreignWrite", inst |-> Null, arg |-> raw]
    /\ origin' = [inst |-> Null, op |-> "foreignWrite"]
    /\ UNCHANGED <<Env, mediaMatches, alive, preference, systemScheme, scheme,
                   doc, sysPending, listeners>>
    /\ UNCHANGED appVars

\* Another context changes another key of the origin's localStorage.
ForeignOtherKey ==
    /\ storageOK
    /\ \E j \in Instances : "storage" \in listeners[j]
    /\ \A j \in Instances : "storage" \in listeners[j] => Len(events[j]) < MaxPending
    /\ events' = [j \in Instances |->
                    IF "storage" \in listeners[j]
                    THEN Append(events[j], OTHER_KEY) ELSE events[j]]
    /\ last' = [op |-> "foreignOtherKey", inst |-> Null, arg |-> OTHER_KEY]
    /\ origin' = origin
    /\ UNCHANGED <<Env, store, mediaMatches, alive, preference, systemScheme,
                   scheme, doc, sysPending, listeners>>
    /\ UNCHANGED appVars

InstanceStep(i) ==
    \/ \E p \in ColorSchemePreference : Mount(i, p)
    \/ Unmount(i)
    \/ \E p \in ColorSchemePreference : SetPreference(i, p)
    \/ \E s \in ColorScheme : SetScheme(i, s)
    \/ ResetPreference(i)
    \/ HandleStorage(i)
    \/ HandleSystemChange(i)

(***************************************************************************)
(* src/lib/supabaseClient.ts and src/app/App.tsx                           *)
(***************************************************************************)

\* JavaScript's undefined.
Undefined == "<undefined>"
\* The SupabaseClient createClient returns.
Client == "<client>"
\* The save_slot of the rows of the model.
Slots == {"slot1", "slot2"}
\* Requests of one kind in flight at most.
MaxInFlight == 2
\* createClient is invoked this often at most.
MaxCreate == 2

\* An environment variable: unset, blank, set.
EnvValues == {Undefined, "  ", " https://db "}
\* What the name input can hold.
NameInputs == {"", "  ", " Lucy "}

\* String.prototype.trim on the strings of the model; ?.trim() of undefined.
Trim(s) ==
    IF s = "  " THEN ""
    ELSE IF s = " https://db " THEN "https://db"
    ELSE IF s = " Lucy " THEN "Lucy"
    ELSE s

\* !x for the values of the model.
Falsy(x) == x = Undefined \/ x = Null \/ x = ""

\* A row without a character, and a row with one.
EmptyRow == [character_name |-> Null, save_name |-> Null,
             location |-> Null, level |-> Null]
OldRow == [character_name |-> "Natsu", save_name |-> "Aventure de Natsu",
           location |-> "Hargeon", level |-> "7"]
\* The columns handleStartNewGame sets.
NewRow(name) == [character_name |-> name, save_name |-> <<"Aventure de ", name>>,
                 location |-> "Magnolia - Devant la guilde", level |-> "1"]

\* The selects and the updates that can be in flight, and the intervals.
LookupRecords == [slot : Slots, phase : {"sent", "data", "error"},
                  name : {Null, "Natsu", "Lucy"}]
UpdateRecords == [slot : Slots, name : {"Lucy"}, had : BOOLEAN]
IntervalRecords == [slot : Slots, cancelled : BOOLEAN]

\* getSupabaseClient caching a client and not a null.
getSupabaseClient_truthy(throws) ==
    IF ~Falsy(cachedClient)
    THEN /\ returned' = cachedClient
         /\ UNCHANGED <<cachedClient, createCalls>>
    ELSE IF Falsy(Trim(supabaseUrl)) \/ Falsy(Trim(supabaseAnonKey))
    THEN /\ cachedClient' = Null
         /\ returned' = Null
         /\ UNCHANGED createCalls
    ELSE /\ createCalls' = createCalls + 1
         /\ cachedClient' = (IF throws THEN Null ELSE Client)
         /\ returned' = cachedClient'

\* getSupabaseClient; throws: createClient throws in this call.
getSupabaseClient(throws) ==
    IF cachedClient # Undefined
    THEN /\ returned' = cachedClient
         /\ UNCHANGED <<cachedClient, createCalls>>
    ELSE IF Falsy(Trim(supabaseUrl)) \/ Falsy(Trim(supabaseAnonKey))
    THEN /\ cachedClient' = Null
         /\ returned' = Null
         /\ UNCHANGED createCalls
    ELSE /\ createCalls' = createCalls + 1
         /\ cachedClient' = (IF throws THEN Null ELSE Client)
         /\ returned' = cachedClient'

\* One call of getSupabaseClient, by App's useMemo or by anyone else.
CallGetSupabaseClient ==
    /\ createCalls < MaxCreate
    /\ \E throws \in BOOLEAN : getSupabaseClient(throws)
    /\ firstResult' = (IF firstResult = Undefined THEN returned' ELSE firstResult)
    /\ UNCHANGED <<supabaseUrl, supabaseAnonKey>>

\* The interval of the autosave effect that is live.
LiveInterval == [slot |-> selectedSlot, cancelled |-> FALSE]

\* A cleanup that sets cancelled and forgets clearInterval.
autosaveCleanup_flag ==
    (intervals \ {LiveInterval}) \cup
        {[slot |-> t.slot, cancelled |-> TRUE] : t \in intervals \cap {LiveInterval}}

\* The cleanup of the autosave effect: cancelled = true, clearInterval(interval).
autosaveCleanup == intervals \ {LiveInterval}

\* The autosave effect in the commit of a render with selectedSlot = slot: it
\* runs when the slot changed, cleans the previous run up, saves once and sets
\* the interval.
autosaveEffect(slot) ==
    IF slot = selectedSlot
    THEN /\ intervals' = intervals
         /\ started' = Null
    ELSE IF slot = Null \/ Falsy(supabase)
    THEN /\ intervals' = autosaveCleanup
         /\ started' = Null
    ELSE /\ intervals' = autosaveCleanup \cup {[slot |-> slot, cancelled |-> FALSE]}
         /\ started' = slot

\* App renders for the first time.
AppMount ==
    /\ appState = "initial"
    /\ CallGetSupabaseClient
    /\ appState' = "mounted"
    /\ supabase' = returned'
    /\ selectedSlot' = Null
    /\ characterName' = ""
    /\ showNameInput' = FALSE
    /\ started' = Null
    /\ last' = [op |-> "appMount", inst |-> Null, arg |-> Null]
    /\ UNCHANGED <<lookups, updates, db, intervals, selectedLookup, selectedHad>>
    /\ UNCHANGED hookVars

\* App unmounts: the cleanup of the autosave effect runs; what the requests in
\* flight set afterwards is lost.
AppUnmount ==
    /\ appState = "mounted"
    /\ appState' = "unmounted"
    /\ intervals' = autosaveCleanup
    /\ started' = Null
    /\ last' = [op |-> "appUnmount", inst |-> Null, arg |-> selectedSlot]
    /\ UNCHANGED <<clientVars, supabase, selectedSlot, characterName, showNameInput,
                   lookups, updates, db, selectedLookup, selectedHad>>
    /\ UNCHANGED hookVars

\* Another caller of getSupabaseClient.
GetSupabaseClient ==
    /\ CallGetSupabaseClient
    /\ last' = [op |-> "getSupabaseClient", inst |-> Null, arg |-> returned']
    /\ UNCHANGED <<appState, supabase, selectedSlot, characterName, showNameInput,
                   lookups, updates, db, intervals, started, selectedLookup,
                   selectedHad>>
    /\ UNCHANGED hookVars

\* handleSelectSlot up to its await: SaveSlotSelector is shown while no slot is
\* selected, and a click sends the select.
SelectSlot(slotNumber) ==
    /\ appState = "mounted"
    /\ selectedSlot = Null
    /\ ~Falsy(supabase)
    /\ Cardinality(lookups) < MaxInFlight
    /\ lookups' = lookups \cup
                    {[slot |-> slotNumber, phase |-> "sent", name |-> Null]}
    /\ started' = Null
    /\ last' = [op |-> "selectSlot", inst |-> Null, arg |-> slotNumber]
    /\ UNCHANGED <<clientVars, appState, supabase, selectedSlot, characterName,
                   showNameInput, updates, db, intervals, selectedLookup,
                   selectedHad>>
    /\ UNCHANGED hookVars

\* The database answers a select: the character_name of the row, or an error.
DbSelect(l) ==
    /\ l \in lookups
    /\ l.phase = "sent"
    /\ \E r \in {[slot |-> l.slot, phase |-> "data",
                  name |-> db[l.slot].character_name],
                 [slot |-> l.slot, phase |-> "error", name |-> Null]} :
          lookups' = (lookups \ {l}) \cup {r}
    /\ started' = Null
    /\ last' = [op |-> "dbSelect", inst |-> Null, arg |-> l.slot]
    /\ UNCHANGED <<clientVars, appState, supabase, selectedSlot, characterName,
                   showNameInput, updates, db, intervals, selectedLookup,
                   selectedHad>>
    /\ UNCHANGED hookVars

\* handleSelectSlot after its await.
SelectResponse(l) ==
    /\ l \in lookups
    /\ l.phase # "sent"
    /\ lookups' = lookups \ {l}
    /\ last' = [op |-> "selectResponse", inst |-> Null, arg |-> l.slot]
    /\ IF l.phase = "error" \/ appState # "mounted"
       THEN /\ started' = Null
            /\ UNCHANGED <<selectedSlot, showNameInput, intervals, selectedLookup,
                           selectedHad>>
       ELSE /\ selectedSlot' = l.slot
            /\ showNameInput' = (IF Falsy(l.name) THEN TRUE ELSE showNameInput)
            /\ autosaveEffect(l.slot)
            /\ selectedLookup' = l.name
            /\ selectedHad' = ~Falsy(db[l.slot].character_name)
    /\ UNCHANGED <<clientVars, appState, supabase, characterName, updates, db>>
    /\ UNCHANGED hookVars

\* The name input's onChange.
TypeName(n) ==
    /\ appState = "mounted"
    /\ selectedSlot # Null
    /\ showNameInput
    /\ n # characterName
    /\ characterName' = n
    /\ started' = Null
    /\ last' = [op |-> "typeName", inst |-> Null, arg |-> n]
    /\ UNCHANGED <<clientVars, appState, supabase, selectedSlot, showNameInput,
                   lookups, updates, db, intervals, selectedLookup, selectedHad>>
    /\ UNCHANGED hookVars

\* handleStartNewGame up to its await: the name form is shown while a slot is
\* selected and showNameInput is set.
StartNewGame ==
    /\ appState = "mounted"
    /\ selectedSlot # Null
    /\ showNameInput
    /\ IF Falsy(Trim(characterName)) \/ Falsy(supabase)
       THEN updates' = updates
       ELSE /\ Cardinality(updates) < MaxInFlight
            /\ updates' = updates \cup
                            {[slot |-> selectedSlot, name |-> Trim(characterName),
                              had |-> selectedHad]}
    /\ started' = Null
    /\ last' = [op |-> "startNewGame", inst |-> Null, arg |-> selectedSlot]
    /\ UNCHANGED <<clientVars, appState, supabase, selectedSlot, characterName,
                   showNameInput, lookups, db, intervals, selectedLookup,
                   selectedHad>>
    /\ UNCHANGED hookVars

\* The database runs an update or fails, and handleStartNewGame goes on after
\* its await.
UpdateResponse(u, ok) ==
    /\ u \in updates
    /\ updates' = updates \ {u}
    /\ db' = (IF ok THEN [db EXCEPT ![u.slot] = NewRow(u.name)] ELSE db)
    /\ showNameInput' =
          (IF ok /\ appState = "mounted" THEN FALSE ELSE showNameInput)
    /\ started' = Null
    /\ last' = [op |-> "updateResponse", inst |-> Null, arg |-> u.slot]
    /\ UNCHANGED <<clientVars, appState, supabase, selectedSlot, characterName,
                   lookups, intervals, selectedLookup, selectedHad>>
    /\ UNCHANGED hookVars

\* handleBackToMenu: the buttons of the name form and of the game view.
BackToMenu ==
    /\ appState = "mounted"
    /\ selectedSlot # Null
    /\ selectedSlot' = Null
    /\ showNameInput' = FALSE
    /\ characterName' = ""
    /\ autosaveEffect(Null)
    /\ selectedLookup' = Null
    /\ selectedHad' = FALSE
    /\ last' = [op |-> "backToMenu", inst |-> Null, arg |-> selectedSlot]
    /\ UNCHANGED <<clientVars, appState, supabase, lookups, updates, db>>
    /\ UNCHANGED hookVars

\* An interval fires: runAutosave unless the effect was cancelled.
AutosaveTick(t) ==
    /\ t \in intervals
    /\ started' = (IF ~t.cancelled THEN t.slot ELSE Null)
    /\ last' = [op |-> "autosaveTick", inst |-> Null, arg |-> t.slot]
    /\ UNCHANGED <<clientVars, appState, supabase, selectedSlot, characterName,
                   showNameInput, lookups, updates, db, intervals, selectedLookup,
                   selectedHad>>
    /\ UNCHANGED hookVars

\* The App before it is mounted, and nothing in flight.
AppIdle ==
    /\ cachedClient = Undefined
    /\ createCalls = 0
    /\ firstResult = Undefined
    /\ returned = Undefined
    /\ appState = "initial"
    /\ supabase = Undefined
    /\ selectedSlot = Null
    /\ characterName = ""
    /\ showNameInput = FALSE
    /\ lookups = {}
    /\ updates = {}
    /\ intervals = {}
    /\ started = Null
    /\ selectedLookup = Null
    /\ selectedHad = FALSE

\* The hook's specifications leave the App aside.
NoApp ==
    /\ supabaseUrl = Undefined
    /\ supabaseAnonKey = Undefined
    /\ db = [s \in Slots |-> EmptyRow]
    /\ AppIdle

InitInstances ==
    /\ alive = [i \in Instances |-> FALSE]
    /\ preference = [i \in Instances |-> Unmounted]
    /\ systemScheme = [i \in Instances |-> Unmounted]
    /\ scheme = [i \in Instances |-> Unmounted]
    /\ doc = [i \in Instances |-> NoDocument]
    /\ events = [i \in Instances |-> <<>>]
    /\ sysPending = [i \in Instances |-> FALSE]
    /\ listeners = [i \in Instances |-> {}]
    /\ last = [op |-> "init", inst |-> Null, arg |-> Null]
    /\ origin = [inst |-> Null, op |-> "init"]

\* A browser with localStorage and matchMedia; the key holds anything.
Init ==
    /\ storageOK = TRUE
    /\ mediaOK = TRUE
    /\ mediaApi \in {MediaListeners, {"addListener"}}
    /\ store \in RawValues
    /\ mediaMatches \in BOOLEAN
    /\ InitInstances
    /\ NoApp

Next ==
    \/ \E i \in Instances : InstanceStep(i)
    \/ MediaChange
    \/ \E raw \in RawValues : ForeignWrite(raw)
    \/ ForeignOtherKey

Spec == Init /\ [][Next]_vars

\* The same browser when only instances of the hook write the key.
InitClosed ==
    /\ storageOK = TRUE
    /\ mediaOK = TRUE
    /\ mediaApi \in {MediaListeners, {"addListener"}}
    /\ store \in OwnValues
    /\ mediaMatches \in BOOLEAN
    /\ InitInstances
    /\ NoApp

NextClosed ==
    \/ \E i \in Instances : InstanceStep(i)
    \/ MediaChange
    \/ ForeignOtherKey

SpecClosed == InitClosed /\ [][NextClosed]_vars

\* One context alone, restarted any number of times.
NextSolo ==
    \/ InstanceStep("A")
    \/ MediaChange
    \/ ForeignOtherKey

SpecSolo == InitClosed /\ [][NextSolo]_vars

\* No matchMedia, and a localStorage whose every read and write throws.
InitUnavailable ==
    /\ storageOK = FALSE
    /\ mediaOK = FALSE
    /\ mediaApi = {}
    /\ store \in RawValues
    /\ mediaMatches \in BOOLEAN
    /\ InitInstances
    /\ NoApp

NextUnavailable ==
    \E i \in Instances :
        \/ \E p \in ColorSchemePreference : Mount(i, p)
        \/ Unmount(i)
        \/ \E p \in ColorSchemePreference : SetPreference(i, p)
        \/ \E s \in ColorScheme : SetScheme(i, s)
        \/ ResetPreference(i)

SpecUnavailable == InitUnavailable /\ [][NextUnavailable]_vars

\* The App and the client module; the hook of the App is left aside.
InitApp ==
    /\ storageOK = TRUE
    /\ mediaOK = TRUE
    /\ mediaApi = MediaListeners
    /\ store = Null
    /\ mediaMatches = FALSE
    /\ InitInstances
    /\ supabaseUrl \in EnvValues
    /\ supabaseAnonKey \in EnvValues
    /\ db \in [Slots -> {EmptyRow, OldRow}]
    /\ AppIdle

NextApp ==
    \/ AppMount
    \/ AppUnmount
    \/ GetSupabaseClient
    \/ \E s \in Slots : SelectSlot(s)
    \/ \E l \in LookupRecords : DbSelect(l)
    \/ \E l \in LookupRecords : SelectResponse(l)
    \/ \E n \in NameInputs : TypeName(n)
    \/ StartNewGame
    \/ \E u \in UpdateRecords : \E ok \in BOOLEAN : UpdateResponse(u, ok)
    \/ BackToMenu
    \/ \E t \in IntervalRecords : AutosaveTick(t)

SpecApp == InitApp /\ [][NextApp]_vars

Mutations == {"setPreference", "setScheme", "resetPreference"}

\* What persistPreference leaves under the key for a preference.
Literal(p) == IF p = "system" THEN Null ELSE p

\* C1: the Scheme of a live instance is its Preference when that is light or
\* dark, and follows the SystemSignal the instance has rendered when it is
\* system (dark for true, light for false); that signal is the platform's unless
\* a change event is still queued for the instance. The Scheme is light or
\* dark, the Preference light, dark or system.
C1_SchemeResolved ==
    \A i \in Instances : alive[i] =>
        /\ preference[i] \in ColorSchemePreference
        /\ scheme[i] \in ColorScheme
        /\ systemScheme[i] \in ColorScheme
        /\ preference[i] \in ColorScheme => scheme[i] = preference[i]
        /\ preference[i] = "system" =>
             scheme[i] = (IF systemScheme[i] = "dark" THEN "dark" ELSE "light")
        /\ ~sysPending[i] => ((systemScheme[i] = "dark") <=> mediaMatches)

C1_Witness ==
    \E i \in Instances :
        /\ alive[i] /\ preference[i] = "system" /\ scheme[i] = "dark"
        /\ mediaMatches /\ last = [op |-> "systemChange", inst |-> i, arg |-> "dark"]

\* C2: once no storage notification is waiting, all live instances hold the
\* same Preference, system included.
C2_EventuallyConsistent ==
    (\A i \in Instances : events[i] = <<>>) =>
        \A i, j \in Instances :
            (alive[i] /\ alive[j]) => preference[i] = preference[j]

\* C3: for p light or dark, when the key holds the p that instance a's
\* setPreference(p) wrote and instance b handles its notification for the key,
\* b's Preference and Scheme become p and the Preference and Scheme of a (of
\* every other instance) stay as they are.
C3_CrossInstance ==
    [][\A a, b \in Instances : \A p \in ColorScheme :
          ( /\ a # b
            /\ origin = [inst |-> a, op |-> "setPreference"]
            /\ store = p
            /\ alive[b] /\ events[b] # <<>> /\ Head(events[b]) = STORAGE_KEY
            /\ last' = [op |-> "handleStorage", inst |-> b, arg |-> STORAGE_KEY] )
          => /\ preference'[b] = p
             /\ scheme'[b] = p
             /\ preference'[a] = preference[a]
             /\ scheme'[a] = scheme[a]]_vars

C3_Witness ==
    \E a, b \in Instances :
        /\ a # b /\ alive[a] /\ alive[b]
        /\ origin = [inst |-> a, op |-> "setPreference"]
        /\ last = [op |-> "handleStorage", inst |-> b, arg |-> STORAGE_KEY]
        /\ store = "dark" /\ preference[a] = "dark"
        /\ preference[b] = "dark" /\ scheme[b] = "dark"
        /\ doc[b] = applyDocumentScheme("dark")

\* C4: right after a call of setPreference(p), setScheme(s) or
\* resetPreference(), the key holds the literal of the argument: p for light
\* and dark, nothing for system.
C4_MutationPersists ==
    last.op \in Mutations => store = Literal(last.arg)

\* C5: when the key starts missing, "light" or "dark" and only instances of the
\* hook write it, it is missing, "light" or "dark" in every state: "system" is
\* never stored.
C5_StoredValues == store \in {Null, "light", "dark"}

C5_Witness ==
    /\ last.op = "resetPreference"
    /\ origin = [inst |-> last.inst, op |-> "resetPreference"]
    /\ preference[last.inst] = "system"
    /\ store = Null

\* C6: a new instance initialized right after the teardown of the only
\* instance starts with the Preference the old one held, whatever initial
\* preference argument it is given.
C6_SurvivesRestart ==
    [][\A i \in Instances :
          ( /\ last.op = "unmount" /\ last.inst = i
            /\ last'.op = "mount" /\ last'.inst = i )
          => preference'[i] = last.arg]_vars

\* C7: initializing an instance, handling a system-signal change and handling
\* a storage notification leave the key as it was.
C7_OnlyMutationsWrite ==
    [][last'.op \in {"mount", "systemChange", "handleStorage"} => store' = store]_vars

\* C8: handling a storage notification changes the instance's Preference only
\* when the notification is for STORAGE_KEY and the key holds "light", "dark"
\* or "system", and then to that value: another key, a missing or a malformed
\* value leave the Preference as it was.
C8_StorageAdoption ==
    [][\A i \in Instances :
          ( /\ last'.op = "handleStorage" /\ last'.inst = i
            /\ preference'[i] # preference[i] )
          => /\ last'.arg = STORAGE_KEY
             /\ store \in ColorSchemePreference
             /\ preference'[i] = store]_vars

C8_Witness ==
    \E i \in Instances :
        /\ alive[i]
        /\ last = [op |-> "handleStorage", inst |-> i, arg |-> STORAGE_KEY]
        /\ store = "blue"
        /\ preference[i] = "dark"

\* C9: a system-signal change delivered to an instance leaves its Preference
\* and the key as they were; when it changes the signal the instance renders,
\* the Scheme changes if and only if the Preference is system, and otherwise
\* the Scheme stays.
C9_SystemChange ==
    [][\A i \in Instances :
          (last'.op = "systemChange" /\ last'.inst = i)
          => /\ preference'[i] = preference[i]
             /\ store' = store
             /\ systemScheme'[i] # systemScheme[i] =>
                  (scheme'[i] # scheme[i] <=> preference[i] = "system")
             /\ systemScheme'[i] = systemScheme[i] => scheme'[i] = scheme[i]]_vars

C9_Witness ==
    \E i \in Instances :
        /\ alive[i] /\ preference[i] = "light" /\ scheme[i] = "light"
        /\ systemScheme[i] = "dark"
        /\ last = [op |-> "systemChange", inst |-> i, arg |-> "dark"]

\* C10: a step of setScheme(s) is a step of setPreference(s), and a step of
\* resetPreference() a step of setPreference(system): the same Preference,
\* Scheme, key, storage notifications and document result.
C10_SameAsSetPreference ==
    [][\A i \in Instances :
          /\ \A s \in ColorScheme :
               last' = [op |-> "setScheme", inst |-> i, arg |-> s]
               => setPreference(i, s)
          /\ last'.op = "resetPreference" /\ last'.inst = i
               => setPreference(i, "system")]_vars

C10_Witness ==
    \E i \in Instances :
        /\ alive[i]
        /\ last = [op |-> "setScheme", inst |-> i, arg |-> "dark"]
        /\ origin = [inst |-> i, op |-> "setScheme"]
        /\ preference[i] = "dark" /\ store = "dark"
        /\ doc[i] = applyDocumentScheme("dark")

\* C11: the document of a live instance shows its Scheme before the next event
\* is handled: dataset.colorScheme and style.colorScheme are the Scheme and the
\* "dark" class is set exactly when the Scheme is dark; and right after a call
\* of setPreference, setScheme or resetPreference the Preference of that
\* instance is the argument of the call.
C11_DocumentFollowsScheme ==
    /\ \A i \in Instances : alive[i] =>
          /\ doc[i].colorScheme = scheme[i]
          /\ doc[i].styleColorScheme = scheme[i]
          /\ doc[i].dark <=> (scheme[i] = "dark")
    /\ last.op \in Mutations => preference[last.inst] = last.arg

C11_Witness ==
    \E i \in Instances :
        /\ alive[i]
        /\ last = [op |-> "resetPreference", inst |-> i, arg |-> "system"]
        /\ origin = [inst |-> i, op |-> "resetPreference"]
        /\ ~mediaMatches /\ scheme[i] = "light"
        /\ doc[i] = [colorScheme |-> "light", dark |-> FALSE,
                     styleColorScheme |-> "light"]

\* C12: whatever the key held, right after persistPreference(p) has run for an
\* instance, readStoredPreference returns p for p light or dark and nothing for
\* p system; and an instance initialized with the default argument on a
\* missing key has Preference system.
C12_RoundTrip ==
    [][\A i \in Instances :
          /\ (alive'[i] /\ preference'[i] # preference[i])
               => readStoredPreference' =
                    (IF preference'[i] = "system" THEN Null ELSE preference'[i])
          /\ (last'.op = "mount" /\ last'.inst = i /\ last'.arg = "system"
                /\ store = Null)
               => preference'[i] = "system"]_vars

C12_Witness ==
    \E i \in Instances :
        /\ alive[i]
        /\ last = [op |-> "setPreference", inst |-> i, arg |-> "light"]
        /\ origin = [inst |-> i, op |-> "setPreference"]
        /\ store = "light"
        /\ readStoredPreference = "light"

\* C13: a stored value that is not "light", "dark" or "system" is read as
\* nothing stored, and an instance initialized on such a key starts with the
\* initial preference argument of the caller.
C13_MalformedIsAbsent ==
    /\ [](store \notin ColorSchemePreference => readStoredPreference = Null)
    /\ [][\A i \in Instances :
            (last'.op = "mount" /\ last'.inst = i
               /\ store \notin ColorSchemePreference)
            => preference'[i] = last'.arg]_vars

C13_Witness ==
    \E i \in Instances :
        /\ alive[i]
        /\ last = [op |-> "mount", inst |-> i, arg |-> "dark", raw |-> "blue"]
        /\ preference[i] = "dark"

\* C14: without matchMedia and with a localStorage that always throws, the
\* system snapshot is light (currentValue false); an instance initialized with
\* the default argument has Preference system and Scheme light; every call of
\* setPreference, setScheme and resetPreference can be made on a live instance
\* and completes with the Preference set to its argument, and the key is never
\* changed.
C14_Unavailable ==
    /\ getSystemSnapshot = "light"
    /\ readStoredPreference = Null
    /\ \A i \in Instances :
          /\ (last.op = "mount" /\ last.inst = i /\ last.arg = "system")
               => (preference[i] = "system" /\ scheme[i] = "light")
          /\ alive[i] =>
               /\ \A p \in ColorSchemePreference : ENABLED SetPreference(i, p)
               /\ \A s \in ColorScheme : ENABLED SetScheme(i, s)
               /\ ENABLED ResetPreference(i)
               /\ scheme[i] = (IF preference[i] = "system" THEN "light"
                               ELSE preference[i])
    /\ last.op \in Mutations =>
          (alive[last.inst] /\ preference[last.inst] = last.arg)
    /\ origin.op = "init"

C14_Witness ==
    \E i \in Instances :
        /\ ~storageOK /\ ~mediaOK /\ mediaMatches
        /\ alive[i]
        /\ last = [op |-> "setPreference", inst |-> i, arg |-> "system"]
        /\ preference[i] = "system" /\ scheme[i] = "light"
        /\ store = "dark"

\* C15: an unmounted instance has no listener left, neither for "storage" nor
\* on the media query (registered the modern or the legacy way), and no event
\* waiting; while it stays unmounted no step changes its state or its
\* document, and no write of the key is made by it. A live instance has its
\* "storage" listener.
C15_TornDown ==
    /\ [](\A i \in Instances :
            /\ ~alive[i] =>
                 (listeners[i] = {} /\ events[i] = <<>> /\ ~sysPending[i])
            /\ alive[i] =>
                 listeners[i] = {"storage"} \cup subscribeSystem)
    /\ [][\A i \in Instances :
            (~alive[i] /\ ~alive'[i])
            => /\ preference'[i] = preference[i]
               /\ scheme'[i] = scheme[i]
               /\ doc'[i] = doc[i]
               /\ origin' # origin => origin'.inst # i]_vars

C15_Witness ==
    \E i, j \in Instances :
        /\ mediaApi = {"addListener"}
        /\ ~alive[i] /\ doc[i] # NoDocument /\ listeners[i] = {}
        /\ alive[j] /\ sysPending[j] /\ events[j] # <<>>
        /\ last.op = "foreignWrite"

\* C16: whenever the name input is shown, the lookup that selected the current
\* slot returned no character_name; and handleStartNewGame sends no update for
\* a slot whose row had a character when the slot was selected.
C16_NameInputOnlyForEmptySlot ==
    /\ (showNameInput /\ selectedSlot # Null) => selectedLookup = Null
    /\ \A u \in updates : ~u.had

\* C17: at most one autosave interval is set; one is set only while App is
\* mounted with a slot selected and a client, it is the interval of the selected
\* slot and is not cancelled; every autosave write that starts is for the
\* selected slot, and none starts while no slot is selected.
C17_OneAutosaveTimer ==
    /\ Cardinality(intervals) <= 1
    /\ intervals # {} =>
          /\ appState = "mounted"
          /\ selectedSlot # Null
          /\ supabase = Client
          /\ intervals = {[slot |-> selectedSlot, cancelled |-> FALSE]}
    /\ started # Null => started = selectedSlot

C17_Witness ==
    /\ last = [op |-> "backToMenu", inst |-> Null, arg |-> "slot1"]
    /\ selectedSlot = Null
    /\ intervals = {}
    /\ started = Null
    /\ lookups # {}

\* C18: createClient is invoked at most once; once a call of getSupabaseClient
\* has returned, every call returns what the first one returned and the cache
\* holds it, no later step invokes createClient, and the result is null
\* without any construction when the URL or the key is missing or blank.
C18_ConstructedOnce ==
    /\ [](/\ createCalls <= 1
          /\ firstResult # Undefined =>
                /\ returned = firstResult
                /\ cachedClient = firstResult
                /\ firstResult \in {Null, Client}
                /\ (Falsy(Trim(supabaseUrl)) \/ Falsy(Trim(supabaseAnonKey)))
                      => (firstResult = Null /\ createCalls = 0)
                /\ firstResult = Client => createCalls = 1)
    /\ [][firstResult # Undefined => createCalls' = createCalls]_vars

C18_Witness ==
    /\ firstResult = Null
    /\ createCalls = 1
    /\ appState = "mounted"
    /\ supabase = Null
    /\ last = [op |-> "getSupabaseClient", inst |-> Null, arg |-> Null]

====
